---- MODULE Spec2Model ----
(***************************************************************************)
(* Model of src/src/tree.rs: Path (a VecDeque<usize> of child indices),    *)
(* Tree<T> (an item and an ordered Vec of owned subtrees) and              *)
(* TreePathMap<T> (HashMap<T, Vec<Path>>, the reverse index).              *)
(*                                                                         *)
(* Rust values are modelled as follows.                                    *)
(*   Option<X>      : None is <<>>, Some(x) is <<x>>                       *)
(*   Vec / VecDeque : a sequence; Rust index i is TLA+ index i + 1         *)
(*   Tree<T>        : [item |-> k, children |-> <<subtrees>>]              *)
(*   HashMap<K, V>  : a function whose DOMAIN is the set of keys present   *)
(*   a &self / &mut self method: an operator returning                     *)
(*                    [self |-> receiver after the call, ret |-> result]   *)
(***************************************************************************)
EXTENDS Integers, Sequences, FiniteSets, TLC

VARIABLES path, origin, tree, moved, index, src, kind, log, last

vars == <<path, origin, tree, moved, index, src, kind, log, last>>

(***************************************************************************)
(* Bounds of the model.                                                    *)
(***************************************************************************)
\* largest number of nodes of a tree
MaxNodes == 4
\* largest child index used as a step of a queried path
MaxStep == 2
\* largest length of a queried path
MaxPathLen == 2
\* largest length of a path grown by push_back
MaxPushLen == 3
\* largest number of direct insert calls on one map
MaxInserts == 3

\* item values (T = String in the tests); "dog" is absent from some trees
Items == {"cat", "dog"}

\* paths handed to direct insert calls
InsertPaths == {<<>>, <<0>>, <<1, 0>>}

(***************************************************************************)
(* Option, Vec and VecDeque primitives of the standard library.            *)
(***************************************************************************)
None == <<>>

Some(x) == <<x>>

\* a get that clamps an index past the end to the last element
Vec_get_clamped(v, i) ==
    IF Len(v) = 0 THEN <<>> ELSE IF i < Len(v) THEN <<v[i + 1]>> ELSE <<v[Len(v)]>>

\* Vec::get(index): Some(&v[index]) when index < len, else None
Vec_get(v, i) ==
    IF i < Len(v) THEN Some(v[i + 1]) ELSE None

\* Vec::first(): Some(&v[0]) when non-empty, else None
Vec_first(v) ==
    IF Len(v) > 0 THEN Some(v[1]) ELSE None

\* Vec::push / VecDeque::push_back on a mutable sequence
Vec_push(v, x) == Append(v, x)

\* VecDeque::pop_front on a mutable deque: the deque after, and the result
VecDeque_pop_front(d) ==
    IF Len(d) = 0
    THEN [self |-> d, ret |-> None]
    ELSE [self |-> Tail(d), ret |-> Some(Head(d))]

(***************************************************************************)
(* Path                                                                    *)
(***************************************************************************)
\* Path::new
Path_new == <<>>

\* impl From<Vec<usize>> for Path
Path_from(other) == other

\* a split that pops the back of the clone instead of its front
Path_split_back(self) ==
    [self |-> self,
     ret  |-> IF Len(self) = 0
              THEN None
              ELSE Some(<<self[Len(self)], SubSeq(self, 1, Len(self) - 1)>>)]

\* Path::split_front(&self): pops the front of a clone of self
Path_split_front(self) ==
    LET new_path == self
        popped == VecDeque_pop_front(new_path)
    IN  [self |-> self,
         ret  |-> IF popped.ret = None
                  THEN None
                  ELSE Some(<<popped.ret[1], popped.self>>)]

\* a push that puts the value at the front of the clone
Path_push_front(self, value) ==
    [self |-> self, ret |-> <<value>> \o self]

\* Path::push_back(&self, value): pushes onto a clone of self
Path_push_back(self, value) ==
    LET new_path == self
    IN  [self |-> self, ret |-> Vec_push(new_path, value)]

(***************************************************************************)
(* Tree<T>                                                                 *)
(***************************************************************************)
\* Tree::new
Tree_new(item, children) == [item |-> item, children |-> children]

\* Tree::singleton
Tree_singleton(item) == Tree_new(item, <<>>)

RECURSIVE Tree_lookup(_, _)
\* Tree::lookup(&self, path)
Tree_lookup(self, p) ==
    LET sf == Path_split_front(p).ret
    IN  IF sf = None
        THEN Some(self.item)
        ELSE LET i == sf[1][1]
                 child_path == sf[1][2]
                 got == Vec_get(self.children, i)
             IN  IF got = None THEN None ELSE Tree_lookup(got[1], child_path)

\* an append that inserts the child at the front of the children
Tree_append_front(self, new_child_tree) ==
    [self EXCEPT !.children = <<new_child_tree>> \o @]

\* an append that overwrites the last child when there is one
Tree_append_replace_last(self, new_child_tree) ==
    [self EXCEPT !.children =
        IF Len(@) = 0
        THEN <<new_child_tree>>
        ELSE [@ EXCEPT ![Len(@)] = new_child_tree]]

\* Tree::append(&mut self, new_child_tree): the receiver after the call
Tree_append(self, new_child_tree) ==
    [self EXCEPT !.children = Vec_push(@, new_child_tree)]

(***************************************************************************)
(* TreePathMap<T>                                                          *)
(***************************************************************************)
\* T::clone for the item type: an equal value
Clone(x) == x

\* HashMap::get(k): Some(&value) when k is present, else None
HashMap_get(m, k) ==
    IF k \in DOMAIN m THEN Some(m[k]) ELSE None

\* TreePathMap::new: HashMap::new()
TreePathMap_new == [k \in {} |-> <<>>]

\* an insert that puts the path at the front of an existing list
TreePathMap_insert_prepend(self, k, p) ==
    IF k \in DOMAIN self
    THEN [self EXCEPT ![k] = <<p>> \o @]
    ELSE [x \in DOMAIN self \cup {k} |-> IF x = k THEN <<p>> ELSE self[x]]

\* an insert that replaces an existing list (HashMap::insert)
TreePathMap_insert_overwrite(self, k, p) ==
    [x \in DOMAIN self \cup {k} |-> IF x = k THEN <<p>> ELSE self[x]]

\* TreePathMap::insert(&mut self, k, path): the receiver after
\* entry(k).and_modify(|paths| paths.push(path.clone())).or_insert(vec![path])
TreePathMap_insert(self, k, p) ==
    IF k \in DOMAIN self
    THEN [self EXCEPT ![k] = Vec_push(@, Clone(p))]
    ELSE [x \in DOMAIN self \cup {k} |-> IF x = k THEN <<p>> ELSE self[x]]

RECURSIVE insert_children_own_one_based_from(_, _, _, _)
\* a loop that numbers the children from 1
insert_children_own_one_based_from(self, children, p, i) ==
    IF i >= Len(children)
    THEN self
    ELSE LET child == children[i + 1]
             child_path == Append(p, i + 1)
             inserted == IF child.item \in DOMAIN self
                         THEN [self EXCEPT ![child.item] = Append(@, child_path)]
                         ELSE [x \in DOMAIN self \cup {child.item} |->
                                  IF x = child.item THEN <<child_path>> ELSE self[x]]
             walked == insert_children_own_one_based_from(inserted, child.children,
                                                          child_path, 0)
         IN  insert_children_own_one_based_from(walked, children, p, i + 1)

TreePathMap_insert_children_own_one_based(self, children, p) ==
    insert_children_own_one_based_from(self, children, p, 0)

RECURSIVE TreePathMap_insert_children_own(_, _, _), insert_children_own_from(_, _, _, _)
\* TreePathMap::insert_children_own(&mut self, children, path): the receiver
\* after the loop over children.into_iter().enumerate()
TreePathMap_insert_children_own(self, children, p) ==
    insert_children_own_from(self, children, p, 0)

\* the iterations i, i + 1, ... of that loop
insert_children_own_from(self, children, p, i) ==
    IF i >= Len(children)
    THEN self
    ELSE LET child == children[i + 1]
             child_path == Path_push_back(p, i).ret
             inserted == TreePathMap_insert(self, child.item, Clone(child_path))
             walked == TreePathMap_insert_children_own(inserted, child.children,
                                                       child_path)
         IN  insert_children_own_from(walked, children, p, i + 1)

RECURSIVE TreePathMap_insert_children_flat(_, _, _)
\* a loop that records the children and does not descend into them
TreePathMap_insert_children_flat(self, children, p) ==
    IF children = <<>>
    THEN self
    ELSE LET i == Len(children) - 1
             done == TreePathMap_insert_children_flat(
                         self, SubSeq(children, 1, i), p)
         IN  TreePathMap_insert(done, children[i + 1].item, Append(p, i))

RECURSIVE TreePathMap_insert_children(_, _, _), insert_children_from(_, _, _, _)
\* TreePathMap::insert_children(&mut self, children: &[Tree<T>], path): the
\* receiver after the loop over children.iter().enumerate()
TreePathMap_insert_children(self, children, p) ==
    insert_children_from(self, children, p, 0)

\* the iterations i, i + 1, ... of that loop
insert_children_from(self, children, p, i) ==
    IF i >= Len(children)
    THEN self
    ELSE LET child == children[i + 1]
             child_path == Path_push_back(p, i).ret
             inserted == TreePathMap_insert(self, Clone(child.item),
                                            Clone(child_path))
             walked == TreePathMap_insert_children(inserted, child.children,
                                                   child_path)
         IN  insert_children_from(walked, children, p, i + 1)

\* a lookup that returns the last recorded path
TreePathMap_lookup_last(self, k) ==
    IF k \in DOMAIN self /\ Len(self[k]) > 0
    THEN <<self[k][Len(self[k])]>>
    ELSE <<>>

\* TreePathMap::lookup_first(&self, k)
TreePathMap_lookup_first(self, k) ==
    LET option_paths == HashMap_get(self, k)
    IN  IF option_paths = None THEN None ELSE Vec_first(option_paths[1])

\* impl From<&Tree<T>> for TreePathMap<T>
TreePathMap_from_ref(other) ==
    LET map == TreePathMap_new
        root_path == Path_new
        rooted == TreePathMap_insert(map, Clone(other.item), Clone(root_path))
    IN  TreePathMap_insert_children(rooted, other.children, root_path)

\* impl From<Tree<T>> for TreePathMap<T>
TreePathMap_from_own(other) ==
    LET map == TreePathMap_new
        root_path == Path_new
        rooted == TreePathMap_insert(map, other.item, Clone(root_path))
    IN  TreePathMap_insert_children_own(rooted, other.children, root_path)

\* the tree of test_tree_path_map_from_tree
ExampleTree ==
    Tree_new("cat",
        << Tree_singleton("dog"),
           Tree_singleton("cat"),
           Tree_new("mouse",
               << Tree_singleton("fish"),
                  Tree_new("fish",
                      << Tree_singleton("dog"), Tree_singleton("cat") >>) >>) >>)

\* the map test_tree_path_map_from_tree expects for it
ExampleIndex ==
    [k \in {"cat", "dog", "mouse", "fish"} |->
        CASE k = "cat" -> << <<>>, <<1>>, <<2, 1, 1>> >>
          [] k = "dog" -> << <<0>>, <<2, 1, 0>> >>
          [] k = "mouse" -> << <<2>> >>
          [] k = "fish" -> << <<2, 0>>, <<2, 1>> >>]

(***************************************************************************)
(* Input domains.                                                          *)
(***************************************************************************)
RECURSIVE TreesOfSize(_), ForestsOfSize(_)
\* every tree of exactly n nodes that Tree::new / Tree::singleton can build
TreesOfSize(n) ==
    IF n = 1
    THEN {Tree_singleton(k) : k \in Items}
    ELSE {Tree_new(k, f) : k \in Items, f \in ForestsOfSize(n - 1)}

\* every children vector holding m nodes in total
ForestsOfSize(m) ==
    IF m = 0
    THEN {<<>>}
    ELSE UNION {{<<t>> \o f : t \in TreesOfSize(j), f \in ForestsOfSize(m - j)} :
                j \in 1..m}

AllTrees == UNION {TreesOfSize(n) : n \in 1..MaxNodes}

\* the trees of at most n nodes, for n in 0..MaxNodes
TreesUpTo == [n \in 0..MaxNodes |-> UNION {TreesOfSize(j) : j \in 1..n}]

RECURSIVE TreeSize(_), ForestSize(_)
TreeSize(t) == 1 + ForestSize(t.children)

ForestSize(f) ==
    IF f = <<>> THEN 0 ELSE TreeSize(Head(f)) + ForestSize(Tail(f))

RECURSIVE PathsUpTo(_, _)
\* every Vec<usize> of length <= n with steps in 0..m
PathsUpTo(n, m) ==
    IF n = 0
    THEN {<<>>}
    ELSE LET shorter == PathsUpTo(n - 1, m)
         IN  shorter \cup {Append(s, x) : s \in shorter, x \in 0..m}

QueryPaths == PathsUpTo(MaxPathLen, MaxStep)

\* the record of the last call: its name, receiver before, argument, receiver
\* after, and result
Call(op, recv, arg, after, ret) ==
    [op |-> op, recv |-> recv, arg |-> arg, after |-> after, ret |-> ret]

NoCall == Call("none", None, None, None, None)

(***************************************************************************)
(* Specification of Path: a caller holding one Path value.                 *)
(***************************************************************************)
InitPath ==
    /\ path = Path_new
    /\ origin = Call("new", None, None, None, Path_new)
    /\ tree = Tree_singleton("cat")
    /\ moved = FALSE
    /\ index = <<>>
    /\ src = Tree_singleton("cat")
    /\ kind = "none"
    /\ log = <<>>
    /\ last = NoCall

\* let path = Path::new();
PathNew ==
    /\ path' = Path_new
    /\ origin' = Call("new", None, None, None, Path_new)
    /\ last' = origin'
    /\ UNCHANGED <<tree, moved, index, src, kind, log>>

\* let path: Path = v.into();
PathFrom ==
    \E v \in QueryPaths :
        /\ path' = Path_from(v)
        /\ origin' = Call("from", None, v, None, path')
        /\ last' = origin'
        /\ UNCHANGED <<tree, moved, index, src, kind, log>>

\* let path = path.push_back(x);
PushBack ==
    \E x \in 0..MaxStep :
        /\ Len(path) < MaxPushLen
        /\ LET r == Path_push_back(path, x)
           IN  /\ path' = r.ret
               /\ origin' = Call("push_back", path, x, r.self, r.ret)
               /\ last' = origin'
        /\ UNCHANGED <<tree, moved, index, src, kind, log>>

\* let res = path.split_front();
SplitFront ==
    /\ LET r == Path_split_front(path)
       IN  /\ path' = r.self
           /\ last' = Call("split_front", path, None, r.self, r.ret)
    /\ UNCHANGED <<origin, tree, moved, index, src, kind, log>>

NextPath == PathNew \/ PathFrom \/ PushBack \/ SplitFront

SpecPath == InitPath /\ [][NextPath]_vars

(***************************************************************************)
(* Reference notions the properties are stated with: defined from the      *)
(* shape of a tree alone, not from the operations above.                   *)
(***************************************************************************)
RECURSIVE Addresses(_)
\* the paths that address an existing node of t
Addresses(t) ==
    {<<>>} \cup UNION {{<<i - 1>> \o q : q \in Addresses(t.children[i])} :
                       i \in 1..Len(t.children)}

RECURSIVE NodeAt(_, _)
\* the node of t that p addresses (p \in Addresses(t)), walking from the last step
NodeAt(t, p) ==
    IF p = <<>>
    THEN t
    ELSE NodeAt(t, SubSeq(p, 1, Len(p) - 1)).children[p[Len(p)] + 1]

\* p comes strictly before q in a pre-order walk visiting children in index
\* order: p is a proper prefix of q, or p takes the smaller step where they part
PreOrderBefore(p, q) ==
    \/ /\ Len(p) < Len(q)
       /\ SubSeq(q, 1, Len(p)) = p
    \/ \E j \in 1..Len(p) :
          /\ j <= Len(q)
          /\ SubSeq(p, 1, j - 1) = SubSeq(q, 1, j - 1)
          /\ p[j] < q[j]

\* the elements of a sequence
Range(s) == {s[j] : j \in 1..Len(s)}

(***************************************************************************)
(* C8  Path head/tail arithmetic                                           *)
(***************************************************************************)
\* C8: Path::new().split_front() is None; p.push_back(x) is p with x appended
\* at the end; p.push_back(x).split_front() is Some((h, r)) with h the first
\* step and r the remaining steps of p.push_back(x), which is
\* Some((x, Path::new())) for the empty p; neither call changes its receiver.
C8_PathArithmetic ==
    /\ (last.op = "split_front" /\ last.recv = Path_new) => last.ret = None
    /\ last.op = "push_back" =>
          /\ last.ret = last.recv \o <<last.arg>>
          /\ last.after = last.recv
    /\ (last.op = "split_front" /\ origin.op = "push_back") =>
          LET pushed == origin.recv \o <<origin.arg>>
          IN  /\ last.recv = origin.ret
              /\ last.ret # None
              /\ last.ret[1][1] = pushed[1]
              /\ last.ret[1][2] = SubSeq(pushed, 2, Len(pushed))
              /\ <<last.ret[1][1]>> \o last.ret[1][2] = pushed
              /\ origin.recv = Path_new =>
                    last.ret = Some(<<origin.arg, Path_new>>)
              /\ last.after = last.recv

\* split_front was called on the result of a push_back on a non-empty path
C8_Witness ==
    /\ last.op = "split_front"
    /\ origin.op = "push_back"
    /\ Len(origin.recv) >= 2
    /\ origin.arg # origin.recv[1]

(***************************************************************************)
(* Specification of Tree: a caller holding one tree, appending to it and   *)
(* looking paths up in it.                                                 *)
(***************************************************************************)
InitTree ==
    /\ tree \in AllTrees
    /\ last = Call("new", None, None, None, tree)
    /\ path = Path_new
    /\ origin = NoCall
    /\ moved = FALSE
    /\ index = <<>>
    /\ src = Tree_singleton("cat")
    /\ kind = "none"
    /\ log = <<>>

\* tree.append(c);
AppendChild ==
    \E c \in TreesUpTo[MaxNodes - TreeSize(tree)] :
        /\ ~moved
        /\ tree' = Tree_append(tree, c)
        /\ last' = Call("append", tree, c, tree', None)
        /\ UNCHANGED <<path, origin, moved, index, src, kind, log>>

\* let res = tree.lookup(p);
Lookup ==
    \E p \in QueryPaths :
        /\ ~moved
        /\ last' = Call("lookup", tree, p, tree, Tree_lookup(tree, p))
        /\ UNCHANGED <<path, origin, tree, moved, index, src, kind, log>>

NextTree == AppendChild \/ Lookup

SpecTree == InitTree /\ [][NextTree]_vars

\* C2: a path addressing an existing node looks up Some(item of that node);
\* the empty path gives the tree's own item, and [i] ++ rest with i a valid
\* child index gives children[i].lookup(rest).
C2_LookupFinds ==
    (last.op = "lookup" /\ last.arg \in Addresses(last.recv)) =>
        /\ last.ret = Some(NodeAt(last.recv, last.arg).item)
        /\ last.arg = <<>> => last.ret = Some(last.recv.item)
        /\ last.arg # <<>> =>
              /\ last.arg[1] < Len(last.recv.children)
              /\ last.ret = Tree_lookup(last.recv.children[last.arg[1] + 1],
                                        Tail(last.arg))

\* a node two levels below the root, not in the first subtree, was looked up
C2_Witness ==
    /\ last.op = "lookup"
    /\ last.arg \in Addresses(last.recv)
    /\ Len(last.arg) >= 2
    /\ last.arg[1] >= 1
    /\ last.ret = Some("dog")
    /\ last.recv.item = "cat"

\* C3: a path that addresses no existing node looks up None, and lookup
\* yields nothing but None or Some(item).
C3_LookupMisses ==
    last.op = "lookup" =>
        /\ last.arg \notin Addresses(last.recv) => last.ret = None
        /\ last.ret \in {None} \cup {Some(k) : k \in Items}

\* a path leaving the tree below the root was looked up: its first step is a
\* valid child, and a later step is out of range
C3_Witness ==
    /\ last.op = "lookup"
    /\ last.arg \notin Addresses(last.recv)
    /\ Len(last.arg) >= 2
    /\ <<last.arg[1]>> \in Addresses(last.recv)
    /\ last.ret = None

\* C7: after t.append(child) on a tree of n children, t.lookup([n]) is
\* Some(child.item), t has n + 1 children with child last, its item and first
\* n children are as before, and every path valid before is valid after and
\* looks up the same item.
C7_AppendFrame ==
    last.op = "append" =>
        LET before == last.recv
            child == last.arg
            n == Len(before.children)
        IN  /\ tree = last.after
            /\ Tree_lookup(tree, <<n>>) = Some(child.item)
            /\ Len(tree.children) = n + 1
            /\ tree.children[n + 1] = child
            /\ tree.item = before.item
            /\ \A i \in 1..n : tree.children[i] = before.children[i]
            /\ \A p \in Addresses(before) :
                  /\ p \in Addresses(tree)
                  /\ Tree_lookup(tree, p) = Tree_lookup(before, p)
                  /\ Tree_lookup(tree, p) = Some(NodeAt(before, p).item)

\* a second append: the tree already had children, the child appended has
\* children of its own and differs from the existing first child
C7_Witness ==
    /\ last.op = "append"
    /\ Len(last.recv.children) >= 1
    /\ last.arg.children # <<>>
    /\ last.arg # last.recv.children[1]

(***************************************************************************)
(* Specification of the index: a caller holding one tree, building the     *)
(* index from it (borrowing or consuming it), appending to the tree        *)
(* before or after, and querying the index.  kind says how the index was   *)
(* created, src is the tree it was built from, as it was then, and log     *)
(* holds the direct insert calls made on it since.                         *)
(***************************************************************************)
InitIndex ==
    /\ tree \in AllTrees
    /\ moved = FALSE
    /\ index = TreePathMap_new
    /\ src = tree
    /\ kind = "none"
    /\ log = <<>>
    /\ last = Call("new", None, None, None, tree)
    /\ path = Path_new
    /\ origin = NoCall

\* let index = TreePathMap::from(&tree);
BuildRef ==
    /\ ~moved
    /\ index' = TreePathMap_from_ref(tree)
    /\ src' = tree
    /\ kind' = "ref"
    /\ log' = <<>>
    /\ last' = Call("from_ref", tree, None, tree, index')
    /\ UNCHANGED <<path, origin, tree, moved>>

\* let index: TreePathMap<T> = tree.into();
BuildOwn ==
    /\ ~moved
    /\ index' = TreePathMap_from_own(tree)
    /\ src' = tree
    /\ kind' = "own"
    /\ log' = <<>>
    /\ moved' = TRUE
    /\ last' = Call("from_own", tree, None, None, index')
    /\ UNCHANGED <<path, origin, tree>>

\* index.insert(k, p); on an index as built from a tree
InsertBuilt ==
    \E k \in Items, p \in InsertPaths :
        /\ kind \in {"ref", "own"}
        /\ log = <<>>
        /\ index' = TreePathMap_insert(index, k, p)
        /\ log' = Append(log, <<k, p>>)
        /\ last' = Call("insert", index, <<k, p>>, index', None)
        /\ UNCHANGED <<path, origin, tree, moved, src, kind>>

\* let res = index.lookup_first(&k);
LookupFirst ==
    \E k \in Items :
        /\ kind # "none"
        /\ last' = Call("lookup_first", index, k, index,
                        TreePathMap_lookup_first(index, k))
        /\ UNCHANGED <<path, origin, tree, moved, index, src, kind, log>>

NextIndex == BuildRef \/ BuildOwn \/ AppendChild \/ InsertBuilt \/ LookupFirst

SpecIndex == InitIndex /\ [][NextIndex]_vars

\* the index is as a conversion from a tree returned it
AsBuilt == kind \in {"ref", "own"} /\ log = <<>>

\* the paths of the nodes of t whose item is k
Occurrences(t, k) == {p \in Addresses(t) : NodeAt(t, p).item = k}

\* C1: the index built from T maps each value k to exactly the paths of the
\* nodes of T whose item is k, none omitted or repeated, in pre-order with
\* children in index order; the tested example tree gives the tested map.
C1_IndexIsPreOrderOccurrences ==
    /\ AsBuilt =>
          /\ DOMAIN index = {k \in Items : Occurrences(src, k) # {}}
          /\ \A k \in DOMAIN index :
                /\ Range(index[k]) = Occurrences(src, k)
                /\ Len(index[k]) = Cardinality(Occurrences(src, k))
                /\ \A i, j \in 1..Len(index[k]) :
                      i < j => PreOrderBefore(index[k][i], index[k][j])
    /\ TreePathMap_from_own(ExampleTree) = ExampleIndex
    /\ TreePathMap_from_ref(ExampleTree) = ExampleIndex

\* an index built from a tree in which one value sits at the root, in the
\* first subtree's second level and in the second subtree
C1_Witness ==
    /\ AsBuilt
    /\ "cat" \in DOMAIN index
    /\ index["cat"] = << <<>>, <<0, 0>>, <<1>> >>

\* C4: every path the built index holds for k looks up, in the tree it was
\* built from, a node whose item is k; a value that does not occur is not a
\* key, and no key ever has an empty path list.
C4_IndexPathsRoundTrip ==
    /\ AsBuilt =>
          /\ \A k \in DOMAIN index : \A i \in 1..Len(index[k]) :
                Tree_lookup(src, index[k][i]) = Some(k)
          /\ \A k \in Items :
                Occurrences(src, k) = {} => k \notin DOMAIN index
    /\ \A k \in DOMAIN index : index[k] # <<>>

\* an index built from a three-level tree with both values, one of them twice
C4_Witness ==
    /\ AsBuilt
    /\ DOMAIN index = Items
    /\ Len(index["dog"]) >= 2
    /\ \E i \in 1..Len(index["dog"]) : Len(index["dog"][i]) >= 2

\* C5: lookup_first(k) is the first path recorded for k, and None exactly when
\* k never occurred (in the tree, or in a later insert); on an index as built
\* from T it is the path of the pre-order-first node of T whose item is k, and
\* [2, 0] for "fish" in the tested example.
C5_LookupFirst ==
    /\ last.op = "lookup_first" =>
          LET m == last.recv
              k == last.arg
          IN  /\ k \in DOMAIN m => last.ret = Some(m[k][1])
              /\ last.ret = None <=>
                    /\ Occurrences(src, k) = {}
                    /\ \A j \in 1..Len(log) : log[j][1] # k
              /\ (AsBuilt /\ last.ret # None) =>
                    /\ last.ret[1] \in Occurrences(src, k)
                    /\ \A q \in Occurrences(src, k) \ {last.ret[1]} :
                          PreOrderBefore(last.ret[1], q)
    /\ TreePathMap_lookup_first(TreePathMap_from_own(ExampleTree), "fish")
          = Some(<<2, 0>>)
    /\ TreePathMap_lookup_first(TreePathMap_from_own(ExampleTree), "bird") = None

\* lookup_first of a value that is not at the root and occurs more than once
C5_Witness ==
    /\ last.op = "lookup_first"
    /\ AsBuilt
    /\ last.arg = "dog"
    /\ src.item = "cat"
    /\ Cardinality(Occurrences(src, "dog")) >= 2
    /\ last.ret # None
    /\ Len(last.ret[1]) >= 2

\* C6: the consuming and the borrowing conversion of one tree give the same
\* keys and, per key, the same path list.
C6_OwnEqualsRef ==
    AsBuilt =>
        /\ kind = "own" => index = TreePathMap_from_ref(src)
        /\ kind = "ref" => index = TreePathMap_from_own(src)
        /\ kind = "own" =>
              /\ DOMAIN index = DOMAIN TreePathMap_from_ref(src)
              /\ \A k \in DOMAIN index : index[k] = TreePathMap_from_ref(src)[k]

\* a consuming conversion of a tree of nested, repeated values
C6_Witness ==
    /\ AsBuilt
    /\ kind = "own"
    /\ \E k \in DOMAIN index :
          /\ Len(index[k]) >= 3
          /\ \E i \in 1..Len(index[k]) : Len(index[k][i]) >= 2

\* C10: building from a borrowed tree leaves the tree as it was; appends made
\* later leave the index as built, so it holds only paths of the tree as it
\* was then, none for the appended nodes, and each path it holds still looks
\* up the same item in the tree.
C10_IndexIsSnapshot ==
    (kind = "ref" /\ log = <<>>) =>
        LET n == Len(src.children)
        IN  /\ last.op = "from_ref" => (tree = last.recv /\ tree = src)
            /\ tree.item = src.item
            /\ Len(tree.children) >= n
            /\ SubSeq(tree.children, 1, n) = src.children
            /\ \A k \in DOMAIN index : \A i \in 1..Len(index[k]) :
                  /\ index[k][i] \in Addresses(src)
                  /\ Tree_lookup(tree, index[k][i]) = Some(k)
                  /\ Tree_lookup(tree, index[k][i]) = Tree_lookup(src, index[k][i])
            /\ \A p \in Addresses(tree) \ Addresses(src) :
                  /\ p[1] >= n
                  /\ \A k \in DOMAIN index : p \notin Range(index[k])
            /\ UNION {Range(index[k]) : k \in DOMAIN index} = Addresses(src)

\* a tree with children was indexed by reference and then had a child with
\* children of its own appended
C10_Witness ==
    /\ kind = "ref"
    /\ log = <<>>
    /\ last.op = "append"
    /\ src.children # <<>>
    /\ Len(tree.children) > Len(src.children)
    /\ last.arg.children # <<>>

(***************************************************************************)
(* Specification of the map on its own: a caller creating an empty         *)
(* TreePathMap, inserting into it and querying it.                         *)
(***************************************************************************)
InitMap ==
    /\ index = TreePathMap_new
    /\ kind = "new"
    /\ log = <<>>
    /\ last = Call("new", None, None, None, TreePathMap_new)
    /\ tree = Tree_singleton("cat")
    /\ src = Tree_singleton("cat")
    /\ moved = FALSE
    /\ path = Path_new
    /\ origin = NoCall

\* let mut index = TreePathMap::new();
MapNew ==
    /\ index' = TreePathMap_new
    /\ kind' = "new"
    /\ log' = <<>>
    /\ last' = Call("new", None, None, None, index')
    /\ UNCHANGED <<path, origin, tree, moved, src>>

\* index.insert(k, p);
Insert ==
    \E k \in Items, p \in InsertPaths :
        /\ kind = "new"
        /\ Len(log) < MaxInserts
        /\ index' = TreePathMap_insert(index, k, p)
        /\ log' = Append(log, <<k, p>>)
        /\ last' = Call("insert", index, <<k, p>>, index', None)
        /\ UNCHANGED <<path, origin, tree, moved, src, kind>>

NextMap == MapNew \/ Insert \/ LookupFirst

SpecMap == InitMap /\ [][NextMap]_vars

\* the paths of the calls in l made under key k, in call order
PathsUnder(l, k) ==
    LET calls == SelectSeq(l, LAMBDA e : e[1] = k)
    IN  [j \in 1..Len(calls) |-> calls[j][2]]

\* C9: insert(k, path) appends path to k's list, or creates the list [path]
\* for a new k, and leaves every other key's list as it was; after any
\* sequence of inserts each key's list is the paths inserted under it, in
\* call order, duplicates kept.
C9_InsertAppends ==
    /\ last.op = "insert" =>
          LET before == last.recv
              k == last.arg[1]
              p == last.arg[2]
          IN  /\ index = last.after
              /\ DOMAIN index = DOMAIN before \cup {k}
              /\ k \in DOMAIN before => index[k] = before[k] \o <<p>>
              /\ k \notin DOMAIN before => index[k] = <<p>>
              /\ \A other \in DOMAIN before \ {k} : index[other] = before[other]
    /\ kind = "new" =>
          /\ DOMAIN index = {log[j][1] : j \in 1..Len(log)}
          /\ \A k \in DOMAIN index : index[k] = PathsUnder(log, k)

\* the same path was inserted twice under a key, with an insert under the
\* other key in between
C9_Witness ==
    /\ kind = "new"
    /\ Len(log) = 3
    /\ log[1] = log[3]
    /\ log[2][1] # log[1][1]
    /\ Len(index[log[1][1]]) = 2

====
